---- MODULE Spec2Model ----
(***************************************************************************)
(* The file intake and transfer state machine of the sl-file-dropzone      *)
(* component (SlFileDropzone): batches of candidate files arrive through   *)
(* onDrop / handleFileInputChange, handleFiles and addFile validate and    *)
(* queue them, uploadFile starts one XMLHttpRequest per record, the        *)
(* upload callbacks update the record, and handleFileRemove aborts and     *)
(* removes.  Every handler runs to completion (single event loop), so one  *)
(* handler is one action.                                                  *)
(*                                                                         *)
(* A FileInfo object is held by the files array and by the closures of    *)
(* its own upload callbacks.  The model keeps each FileInfo, with the      *)
(* state of its XMLHttpRequest, as one element of `files`; a callback      *)
(* acts on the object it closed over, wherever that object now stands in   *)
(* the array.  An object that has left the array has no upload in flight   *)
(* (handleFileRemove aborts it first), so nothing can reach it any more.   *)
(*                                                                         *)
(* The claims about one handler are stated on what the handler leaves when *)
(* it is run from the current state (Start): they are checked in every     *)
(* reachable state, for every input of the handler.                        *)
(***************************************************************************)
EXTENDS Integers, Sequences, FiniteSets, TLC

\* ---------------------------------------------------------------- bounds
MaxBatch == 2        \* longest FileList delivered in one batch
MaxFilesCap == 2     \* largest configured max-files

\* ------------------------------------------------- optional (T | undefined)
Undefined == <<>>
Some(v) == <<v>>
IsDefined(o) == o # <<>>
Get(o) == o[1]

\* ------------------------------------------------------- candidate files
File(name, ext, cat, sub, size) ==
  [name |-> name, ext |-> ext, cat |-> cat, sub |-> sub, size |-> size]

\* a.png of 1 byte, d.txt of 2 bytes
CandidateFiles ==
  { File("a.png", ".png", "image", "png", 1),
    File("d.txt", ".txt", "text", "plain", 2) }

NoFile == File("", "", "", "", 0)

RECURSIVE SeqsUpTo(_, _)
SeqsUpTo(S, n) ==
  IF n = 0 THEN { <<>> }
  ELSE LET shorter == SeqsUpTo(S, n - 1)
       IN shorter \cup { Append(q, x) : q \in { r \in shorter : Len(r) = n - 1 }, x \in S }

\* FileList values a drop or a picker selection can carry (the empty one included)
FileLists == SeqsUpTo(CandidateFiles, MaxBatch)

\* ------------------------------------------------- accept specifications
AnyPattern == [kind |-> "any", ext |-> "", cat |-> "", sub |-> ""]
ExtPattern(e) == [kind |-> "ext", ext |-> e, cat |-> "", sub |-> ""]
MimePattern(c, s) == [kind |-> "mime", ext |-> "", cat |-> c, sub |-> s]

\* '*' (the default) and 'image/*,.png'
AcceptSpecs == { {AnyPattern}, {MimePattern("image", "*"), ExtPattern(".png")} }

Matches(file, p) ==
  CASE p.kind = "any" -> TRUE
    [] p.kind = "ext" -> file.ext = p.ext
    [] p.kind = "mime" -> file.cat = p.cat /\ (p.sub = "*" \/ file.sub = p.sub)

\* library.hasValidFileType: the file matches at least one pattern
hasValidFileType(file, acceptSpec) == \E p \in acceptSpec : Matches(file, p)

\* library.hasValidFileSize: passes when no maximum is set, else size <= max
hasValidFileSize(file, maxBytes) ==
  IsDefined(maxBytes) => file.size <= Get(maxBytes)

\* LocalizeController.term: lookup by key in the translation table
term(key) ==
  CASE key = "maxFiles" -> "max files exceeded"
    [] key = "noMultipleFiles" -> "multiple files not allowed"
    [] key = "fileTypeNotAccepted" -> "type not accepted"
    [] key = "fileSizeExceeded" -> "size exceeded"
    [] key = "serverError" -> "server error"
    [] key = "transferError" -> "transfer error"
    [] key = "transferAbort" -> "transfer aborted"

\* ------------------------------------------------------------------ state
VARIABLES
  maxFiles,      \* max-files property
  accept,        \* accept property
  maxFileSize,   \* max-file-size property (optional)
  url,           \* url property (optional)
  disabled,      \* disabled property
  noDrag,        \* no-drag property
  files,         \* this.files: the FileInfo objects, in order
  warning        \* this.warning (optional): the drop-zone warning

config == <<maxFiles, accept, maxFileSize, url, disabled, noDrag>>
vars == <<maxFiles, accept, maxFileSize, url, disabled, noDrag, files, warning>>

\* the XMLHttpRequest of a FileInfo: the phase of its upload and the bytes sent
NoRequest == [phase |-> "none", loaded |-> 0]

\* const fileInfo: FileInfo = { file }; notified lists the sl-load / sl-error /
\* sl-abort events emitted for this object's transfer so far
NewFileInfo(file) ==
  [file |-> file, accepted |-> FALSE, warning |-> Undefined, loading |-> FALSE,
   progress |-> Undefined, xhr |-> FALSE, req |-> NoRequest, notified |-> <<>>]

NoInfo == NewFileInfo(NoFile)

\* What a handler works on and leaves behind, as one value, so that handlers
\* compose: the component's files and warning, and the handler's own outcome:
\* log, the events it has emitted, in order; threw, whether it ended by
\* throwing; gone, the FileInfo it has dropped from the array, as it was left.
\* Start is the current state with the outcome of a handler that has just begun.
Start ==
  [files |-> files, warning |-> warning, log |-> <<>>, threw |-> FALSE, gone |-> Undefined]

\* index: where the FileInfo the event concerns stands in files when the event
\* is emitted, from 0 (-1 for an event that concerns none)
Event(name, index, fileList, response, detail) ==
  [name |-> name, index |-> index, fileList |-> fileList, response |-> response,
   detail |-> detail]

\* internal/event emit: dispatches the event to the listeners
emit(s, e) == [s EXCEPT !.log = Append(@, e)]

\* emit for one of the upload callbacks of files[k]
emitFor(s, k, name, response, detail) ==
  emit([s EXCEPT !.files[k].notified = Append(@, name)],
       Event(name, k - 1, <<>>, response, detail))

\* ------------------------------------------------------------ the getters
multiple == maxFiles > 1

\* ------------------------------------------------------ upload callbacks
\* the percentage as it would be without the division by total
PercentUnscaled(loaded, total) == loaded * 100

\* (progressEvent.loaded / progressEvent.total) * 100, kept to whole percents
Percent(loaded, total) == (loaded * 100) \div total

updateTransferProgress(s, k, lengthComputable, loaded, total) ==
  IF lengthComputable
  THEN [s EXCEPT !.files[k].progress = Some(Percent(loaded, total))]
  ELSE s

\* onTransferComplete as it would be if a status other than 200 left no
\* warning on the FileInfo
onTransferCompleteSilentFailure(s, k, status, response) ==
  LET s1 == [s EXCEPT !.files[k].loading = FALSE]
  IN IF status = 200
     THEN emitFor(s1, k, "sl-load", response, "response")
     ELSE emitFor([s1 EXCEPT !.files[k].accepted = FALSE], k, "sl-error", "", "event")

\* onTransferComplete as it would be if a finished upload took its record
\* out of the array
onTransferCompleteDropsRecord(s, k, status, response) ==
  LET s1 == emitFor([s EXCEPT !.files[k].loading = FALSE], k, "sl-load", response, "response")
  IN [s1 EXCEPT !.files = SubSeq(s1.files, 1, k - 1) \o SubSeq(s1.files, k + 1, Len(s1.files))]

onTransferComplete(s, k, status, response) ==
  LET s1 == [s EXCEPT !.files[k].loading = FALSE]
  IN IF status = 200
     THEN emitFor(s1, k, "sl-load", response, "response")
     ELSE emitFor([s1 EXCEPT !.files[k].warning = Some(term("serverError")),
                             !.files[k].accepted = FALSE],
                  k, "sl-error", "", "event")

\* onTransferError as it would be if it wrote to the first FileInfo of the
\* array instead of the one it closed over
onTransferErrorAtHead(s, k) ==
  emitFor([s EXCEPT !.files[1].loading = FALSE,
                    !.files[1].warning = Some(term("transferError")),
                    !.files[1].accepted = FALSE],
          k, "sl-error", "", "event")

onTransferError(s, k) ==
  emitFor([s EXCEPT !.files[k].loading = FALSE,
                    !.files[k].warning = Some(term("transferError")),
                    !.files[k].accepted = FALSE],
          k, "sl-error", "", "event")

onTransferAbort(s, k) ==
  emitFor([s EXCEPT !.files[k].loading = FALSE,
                    !.files[k].warning = Some(term("transferAbort")),
                    !.files[k].accepted = FALSE],
          k, "sl-abort", "", "event")

\* ------------------------------------------------------------- uploadFile
\* new XMLHttpRequest, open, the four upload callbacks attached, send: the
\* upload is in flight when uploadFile returns
uploadFile(s, k) ==
  [s EXCEPT !.files[k].loading = TRUE,
            !.files[k].progress = Some(0),
            !.files[k].xhr = TRUE,
            !.files[k].req = [phase |-> "sending", loaded |-> 0]]

\* XMLHttpRequest.abort() as called by handleFileRemove: while the upload is
\* in flight it ends the request and fires the upload's abort event before
\* it returns; on a request that is over it does nothing
xhrAbort(s, k) ==
  IF s.files[k].xhr /\ s.files[k].req.phase = "sending"
  THEN onTransferAbort([s EXCEPT !.files[k].req.phase = "aborted"], k)
  ELSE s

\* ----------------------------------------------------------------- addFile
\* (`this.maxFiles &&` is the test maxFiles # 0)
\* addFile as it would be without the capacity check of its first lines
addFileNoCapacityCheck(s, file) ==
  LET fileInfo ==
        IF ~hasValidFileType(file, accept)
        THEN [NewFileInfo(file) EXCEPT
                !.accepted = FALSE, !.warning = Some(term("fileTypeNotAccepted"))]
        ELSE IF ~hasValidFileSize(file, maxFileSize)
             THEN [NewFileInfo(file) EXCEPT
                     !.accepted = FALSE, !.warning = Some(term("fileSizeExceeded"))]
             ELSE [NewFileInfo(file) EXCEPT !.accepted = TRUE]
      s1 == [s EXCEPT !.files = IF multiple THEN Append(s.files, fileInfo)
                                            ELSE <<fileInfo>>]
  IN IF IsDefined(url) THEN uploadFile(s1, Len(s1.files)) ELSE s1

\* addFile as it would be if a file that fails validation were not recorded
addFileSkipRejected(s, file) ==
  IF maxFiles # 0 /\ Len(s.files) >= maxFiles
  THEN [s EXCEPT !.warning = Some(term("maxFiles"))]
  ELSE IF ~hasValidFileType(file, accept) \/ ~hasValidFileSize(file, maxFileSize)
       THEN s
       ELSE LET s1 == [s EXCEPT !.files =
                         IF multiple
                         THEN Append(s.files, [NewFileInfo(file) EXCEPT !.accepted = TRUE])
                         ELSE << [NewFileInfo(file) EXCEPT !.accepted = TRUE] >>]
            IN IF IsDefined(url) THEN uploadFile(s1, Len(s1.files)) ELSE s1

\* addFile as it would be if the size were validated before the type
addFileSizeFirst(s, file) ==
  IF maxFiles # 0 /\ Len(s.files) >= maxFiles
  THEN [s EXCEPT !.warning = Some(term("maxFiles"))]
  ELSE LET fileInfo ==
             IF ~hasValidFileSize(file, maxFileSize)
             THEN [NewFileInfo(file) EXCEPT
                     !.accepted = FALSE, !.warning = Some(term("fileSizeExceeded"))]
             ELSE IF ~hasValidFileType(file, accept)
                  THEN [NewFileInfo(file) EXCEPT
                          !.accepted = FALSE, !.warning = Some(term("fileTypeNotAccepted"))]
                  ELSE [NewFileInfo(file) EXCEPT !.accepted = TRUE]
           s1 == [s EXCEPT !.files = IF multiple THEN Append(s.files, fileInfo)
                                                 ELSE <<fileInfo>>]
       IN IF IsDefined(url) THEN uploadFile(s1, Len(s1.files)) ELSE s1

addFile(s, file) ==
  IF maxFiles # 0 /\ Len(s.files) >= maxFiles
  THEN [s EXCEPT !.warning = Some(term("maxFiles"))]
  ELSE LET fileInfo ==
             IF ~hasValidFileType(file, accept)
             THEN [NewFileInfo(file) EXCEPT
                     !.accepted = FALSE, !.warning = Some(term("fileTypeNotAccepted"))]
             ELSE IF ~hasValidFileSize(file, maxFileSize)
                  THEN [NewFileInfo(file) EXCEPT
                          !.accepted = FALSE, !.warning = Some(term("fileSizeExceeded"))]
                  ELSE [NewFileInfo(file) EXCEPT !.accepted = TRUE]
           s1 == [s EXCEPT !.files = IF multiple THEN Append(s.files, fileInfo)
                                                 ELSE <<fileInfo>>]
       IN IF IsDefined(url) THEN uploadFile(s1, Len(s1.files)) ELSE s1

\* Object.values(fileList).forEach(file => this.addFile(file))
RECURSIVE addFiles(_, _)
addFiles(s, list) ==
  IF list = <<>> THEN s ELSE addFiles(addFile(s, Head(list)), Tail(list))

\* ------------------------------------------------------------- handleFiles
\* handleFiles as it would be without the check for several files in single mode
handleFilesNoSelectionCheck(s, fileList) ==
  IF ~IsDefined(fileList) \/ Len(Get(fileList)) = 0
  THEN s
  ELSE addFiles(emit([s EXCEPT !.warning = Undefined],
                     Event("sl-change", -1, Get(fileList), "", "fileList")),
                Get(fileList))

\* handleFiles as it would be if sl-change were emitted before that check
handleFilesEmitFirst(s, fileList) ==
  IF ~IsDefined(fileList) \/ Len(Get(fileList)) = 0
  THEN s
  ELSE LET s1 == emit([s EXCEPT !.warning = Undefined],
                      Event("sl-change", -1, Get(fileList), "", "fileList"))
       IN IF ~multiple /\ Len(Get(fileList)) > 1
          THEN [s1 EXCEPT !.warning = Some(term("noMultipleFiles"))]
          ELSE addFiles(s1, Get(fileList))

\* handleFiles as it would be without the reset of this.warning
handleFilesKeepsWarning(s, fileList) ==
  IF ~IsDefined(fileList) \/ Len(Get(fileList)) = 0
  THEN s
  ELSE IF ~multiple /\ Len(Get(fileList)) > 1
       THEN [s EXCEPT !.warning = Some(term("noMultipleFiles"))]
       ELSE addFiles(emit(s, Event("sl-change", -1, Get(fileList), "", "fileList")),
                     Get(fileList))

handleFiles(s, fileList) ==
  IF ~IsDefined(fileList) \/ Len(Get(fileList)) = 0
  THEN s
  ELSE LET s1 == [s EXCEPT !.warning = Undefined]
       IN IF ~multiple /\ Len(Get(fileList)) > 1
          THEN [s1 EXCEPT !.warning = Some(term("noMultipleFiles"))]
          ELSE addFiles(emit(s1, Event("sl-change", -1, Get(fileList), "", "fileList")),
                        Get(fileList))

onDrop(s, dtFiles) ==
  IF ~IsDefined(dtFiles) \/ disabled \/ noDrag
  THEN s
  ELSE handleFiles(s, dtFiles)

handleFileInputChange(s, inputFiles) ==
  handleFiles(emit(s, Event("sl-select", -1, <<>>, "", "none")), inputFiles)

\* -------------------------------------------------------- handleFileRemove
\* the filter as it would be if it kept only what stands before index
RemoveAtTruncating(seq, index) == SubSeq(seq, 1, index)

\* this.files.filter((_, fileIndex) => fileIndex !== index), indices from 0
RemoveAt(seq, index) ==
  SubSeq(seq, 1, index) \o SubSeq(seq, index + 2, Len(seq))

InRange(s, index) == index >= 0 /\ index < Len(s.files)

\* handleFileRemove as it would be without the call of xhr.abort()
handleFileRemoveNoAbort(s, index) ==
  IF ~InRange(s, index)
  THEN [s EXCEPT !.threw = TRUE]
  ELSE LET k == index + 1
           s1 == IF s.files[k].loading
                 THEN emit(s, Event("sl-abort", index, <<>>, "", "fileInfo"))
                 ELSE emit(s, Event("sl-remove", index, <<>>, "", "fileInfo"))
       IN [s1 EXCEPT !.files = RemoveAt(s1.files, index), !.gone = Some(s1.files[k])]

handleFileRemove(s, index) ==
  IF ~InRange(s, index)
  THEN [s EXCEPT !.threw = TRUE]     \* this.files[index] is undefined: reading .loading throws
  ELSE LET k == index + 1
           s1 == IF s.files[k].loading
                 THEN emit(xhrAbort(s, k), Event("sl-abort", index, <<>>, "", "fileInfo"))
                 ELSE emit(s, Event("sl-remove", index, <<>>, "", "fileInfo"))
       IN [s1 EXCEPT !.files = RemoveAt(s1.files, index), !.gone = Some(s1.files[k])]

\* ------------------------------------------------------------------- Init
Urls == { Undefined, Some("/upload") }
MaxFileSizes == { Undefined, Some(1) }

\* the transport's answers: onload reads httpRequest.status and .response
Statuses == { 200, 404 }
Responses == { "ok", "denied" }

\* the component as constructed (files = [], no warning, disabled and no-drag
\* off), with the properties the host page has set on it
Init ==
  /\ maxFiles \in 1..MaxFilesCap
  /\ accept \in AcceptSpecs
  /\ maxFileSize \in MaxFileSizes
  /\ url \in Urls
  /\ disabled = FALSE
  /\ noDrag = FALSE
  /\ files = <<>>
  /\ warning = Undefined

\* event.detail.dataTransfer?.files / this.fileInput.files: a FileList or nothing
Deliveries == { Undefined } \cup { Some(l) : l \in FileLists }

\* ---------------------------------------------------------------- actions
\* A handler runs to its end (or throws) before the next one starts: what it
\* leaves is the new state.
OnDrop ==
  \E d \in Deliveries :
    LET t == onDrop(Start, d)
    IN /\ files' = t.files
       /\ warning' = t.warning
       /\ UNCHANGED config

HandleFileInputChange ==
  \E d \in Deliveries :
    LET t == handleFileInputChange(Start, d)
    IN /\ files' = t.files
       /\ warning' = t.warning
       /\ UNCHANGED config

\* the sl-hide listener of a file item, or a caller of the public method
HandleFileRemove ==
  \E index \in 0..MaxFilesCap :
    LET t == handleFileRemove(Start, index)
    IN /\ files' = t.files
       /\ warning' = t.warning
       /\ UNCHANGED config

Sending(k) == files[k].req.phase = "sending"

\* body length the transport reports as total
Total(k) == files[k].file.size

\* the request of files[k] moves on: more bytes sent, or the upload over
Transport(s, k, phase, loaded) ==
  [s EXCEPT !.files[k].req = [phase |-> phase, loaded |-> loaded]]

\* xhr.upload.onprogress of files[k]: bytes sent so far never go back; total
\* is 0 when the length is not computable
UploadProgress ==
  \E k \in 1..Len(files), computable \in BOOLEAN :
    /\ Sending(k)
    /\ \E loaded \in files[k].req.loaded..Total(k) :
         LET t == updateTransferProgress(Transport(Start, k, "sending", loaded),
                                         k, computable, loaded,
                                         IF computable THEN Total(k) ELSE 0)
         IN /\ files' = t.files
            /\ warning' = t.warning
            /\ UNCHANGED config

\* xhr.upload.onload of files[k]: the handler reads whatever status and
\* response the request holds when the upload's load event fires
UploadLoad ==
  \E k \in 1..Len(files), status \in Statuses, response \in Responses :
    /\ Sending(k)
    /\ LET t == onTransferComplete(Transport(Start, k, "loaded", 0), k, status, response)
       IN /\ files' = t.files
          /\ warning' = t.warning
          /\ UNCHANGED config

\* xhr.upload.onerror of files[k]
UploadError ==
  \E k \in 1..Len(files) :
    /\ Sending(k)
    /\ LET t == onTransferError(Transport(Start, k, "failed", 0), k)
       IN /\ files' = t.files
          /\ warning' = t.warning
          /\ UNCHANGED config

Next ==
  \/ OnDrop
  \/ HandleFileInputChange
  \/ HandleFileRemove
  \/ UploadProgress
  \/ UploadLoad
  \/ UploadError

Spec == Init /\ [][Next]_vars

\* the component with the disabled and no-drag properties as the host page
\* has set them, each on or off
InitFlags ==
  /\ maxFiles \in 1..MaxFilesCap
  /\ accept \in AcceptSpecs
  /\ maxFileSize \in MaxFileSizes
  /\ url \in Urls
  /\ disabled \in BOOLEAN
  /\ noDrag \in BOOLEAN
  /\ files = <<>>
  /\ warning = Undefined

SpecFlags == InitFlags /\ [][Next]_vars

\* ================================================================ claims
\* the names of the events a handler has emitted
EventNames(t) == { t.log[i].name : i \in DOMAIN t.log }

\* the FileInfo was refused by validation when it was added
IntakeRejected(r) ==
  r.warning \in { Some(term("fileTypeNotAccepted")), Some(term("fileSizeExceeded")) }

\* the indices handleFileRemove can be called with for a record of the queue
Indices == 0..(Len(files) - 1)

\* what each entry point leaves when the FileList l is delivered
Delivered(l) ==
  { handleFiles(Start, Some(l)), onDrop(Start, Some(l)), handleFileInputChange(Start, Some(l)) }

\* ---------------------------------------------------------------------- C1
\* C1: with a fixed maxFiles >= 1, after any sequence of batches, transfer
\* callbacks and removals the files queue is never longer than maxFiles (so in
\* single mode it holds at most one record).
QueueWithinCapacity == Len(files) <= maxFiles

\* the queue is full and a further file has been refused
QueueFullAndRefused ==
  /\ Len(files) = maxFiles
  /\ warning = Some(term("maxFiles"))

\* ---------------------------------------------------------------------- C2
\* C2: in single mode, when the queue holds the record of a file A and a batch
\* of one other file B arrives, A's record is replaced: the queue then has
\* length 1 and holds only B's record.
SingleModeReplaces ==
  (maxFiles = 1 /\ Len(files) = 1) =>
    \A f \in CandidateFiles \ { files[1].file } :
      LET t == handleFiles(Start, Some(<<f>>))
      IN Len(t.files) = 1 /\ t.files[1].file = f

\* ---------------------------------------------------------------------- C3
\* C3: a record rejected at intake (type not accepted, size exceeded) never has
\* a transfer: it is never loading, has no cancel handle and no request, and no
\* transfer notification is emitted for it, also when a url is configured.
RejectedNeverInProgress ==
  \A k \in 1..Len(files) :
    IntakeRejected(files[k]) =>
      /\ ~files[k].loading
      /\ ~files[k].xhr
      /\ files[k].req.phase = "none"
      /\ files[k].notified = <<>>

\* ---------------------------------------------------------------------- C4
\* C4: in single mode a batch of two or more candidates is rejected as a whole:
\* the queue (its records and their transfers) is left as it was and the
\* drop-zone warning is the 'multiple files not allowed' text.
SingleModeRejectsBatch ==
  ~multiple =>
    \A l \in FileLists :
      Len(l) >= 2 =>
        \A t \in Delivered(l) :
          /\ t.files = files
          /\ t.warning = Some(term("noMultipleFiles"))
          /\ ~t.threw

\* a batch has been rejected while the queue held a record, which is still there
BatchRejectedBesideRecord ==
  /\ ~multiple
  /\ warning = Some(term("noMultipleFiles"))
  /\ Len(files) = 1

\* ---------------------------------------------------------------------- C5
\* C5 as claimed: in single mode, a batch of two or more candidates still makes
\* sl-change fire, carrying the batch.
SingleModeBatchStillEmitsChange ==
  ~multiple =>
    \A l \in FileLists :
      Len(l) >= 2 =>
        LET t == handleFiles(Start, Some(l))
        IN \E i \in DOMAIN t.log : t.log[i].name = "sl-change" /\ t.log[i].fileList = l

\* C5 as amended: in single mode, a batch of two or more candidates emits no
\* sl-change: handleFiles emits nothing for it, and neither do the entry points
\* beyond the sl-select of the picker.
SingleModeBatchEmitsNoChange ==
  ~multiple =>
    \A l \in FileLists :
      Len(l) >= 2 =>
        /\ handleFiles(Start, Some(l)).log = <<>>
        /\ \A t \in Delivered(l) : "sl-change" \notin EventNames(t)

\* a batch has been rejected on an empty queue, which stays empty
BatchRejectedOnEmptyQueue ==
  /\ ~multiple
  /\ warning = Some(term("noMultipleFiles"))
  /\ files = <<>>

\* ---------------------------------------------------------------------- C6
\* C6: in multi mode a batch of n candidates against a queue of length L
\* appends records for exactly the first min(n, maxFiles - L) candidates, in
\* arrival order, rejected ones included; if n > maxFiles - L the 'max files'
\* warning is set and the other candidates get no record and no transfer.
MultiModeAppendsUpToCapacity ==
  multiple =>
    \A l \in FileLists :
      l # <<>> =>
        LET t == handleFiles(Start, Some(l))
            L == Len(files)
            n == Len(l)
            m == IF n <= maxFiles - L THEN n ELSE maxFiles - L
        IN /\ Len(t.files) = L + m
           /\ \A j \in 1..L : t.files[j] = files[j]
           /\ \A j \in 1..m :
                /\ t.files[L + j].file = l[j]
                /\ t.files[L + j].accepted =
                     (hasValidFileType(l[j], accept) /\ hasValidFileSize(l[j], maxFileSize))
           /\ n > maxFiles - L => t.warning = Some(term("maxFiles"))

\* a batch has overflowed a queue that records a rejected file
OverflowWithRejectedRecorded ==
  /\ multiple
  /\ warning = Some(term("maxFiles"))
  /\ \E k \in 1..Len(files) : IntakeRejected(files[k])

\* ---------------------------------------------------------------------- C7
\* C7: removing a record whose transfer is in progress leaves that record
\* aborted (loading false, 'transfer aborted' warning, request aborted, so no
\* callback of it can follow) and emits sl-abort, and neither sl-load nor
\* sl-error is ever emitted for that transfer, whatever callbacks came before.
RemoveOfLoadingAborts ==
  \A index \in Indices :
    files[index + 1].loading =>
      LET t == handleFileRemove(Start, index)
          g == Get(t.gone)
      IN /\ ~t.threw
         /\ ~g.loading
         /\ g.warning = Some(term("transferAbort"))
         /\ g.req.phase = "aborted"
         /\ "sl-abort" \in EventNames(t)
         /\ EventNames(t) \cap {"sl-load", "sl-error"} = {}
         /\ g.notified # <<>>
         /\ \A i \in DOMAIN g.notified : g.notified[i] = "sl-abort"

\* a record is half way through its upload, and removing it aborts the request
RemoveAbortsHalfSent ==
  \E index \in Indices :
    /\ files[index + 1].loading
    /\ files[index + 1].progress = Some(50)
    /\ Get(handleFileRemove(Start, index).gone).req.phase = "aborted"

\* ---------------------------------------------------------------------- C8
\* C8: handleFileRemove(index) with an index inside the queue emits sl-abort
\* and no sl-remove when the record is loading (having aborted its request),
\* and just sl-remove otherwise; in both cases exactly the record at index
\* leaves the queue, the others keep their order, the later ones move down by one.
RemoveEmitsAndShifts ==
  \A index \in Indices :
    LET t == handleFileRemove(Start, index)
        r == files[index + 1]
        last == t.log[Len(t.log)]
    IN /\ ~t.threw
       /\ Len(t.files) = Len(files) - 1
       /\ \A j \in 1..Len(t.files) :
            t.files[j] = IF j <= index THEN files[j] ELSE files[j + 1]
       /\ t.log # <<>>
       /\ last.index = index /\ last.detail = "fileInfo"
       /\ r.loading =>
            /\ last.name = "sl-abort"
            /\ "sl-remove" \notin EventNames(t)
            /\ Get(t.gone).req.phase = "aborted"
       /\ ~r.loading =>
            /\ t.log = << Event("sl-remove", index, <<>>, "", "fileInfo") >>
            /\ t.gone = Some(r)

\* two records, the first loading and the second not: removing the first
\* leaves the second alone in the queue
RemoveFirstOfTwo ==
  /\ Len(files) = 2
  /\ files[1].loading
  /\ ~files[2].loading
  /\ handleFileRemove(Start, 0).files = << files[2] >>

\* ---------------------------------------------------------------------- C9
\* C9: handleFileRemove with an index outside the queue is a no-op: it ends
\* normally, removes nothing, leaves the queue as it was and emits nothing.
RemoveOutOfRangeIsNoOp ==
  \A index \in 0..MaxFilesCap :
    ~InRange(Start, index) =>
      LET t == handleFileRemove(Start, index)
      IN /\ ~t.threw
         /\ t.gone = Undefined
         /\ t.files = files
         /\ t.log = <<>>

\* --------------------------------------------------------------------- C10
\* C10: when the upload of a loading record completes, status 200 leaves the
\* record completed (loading false, no warning, accepted as before) and emits
\* sl-load with the response; any other status leaves it failed with the
\* 'server error' warning and emits sl-error; neither starts a new transfer.
CompletionOutcome ==
  \A k \in 1..Len(files) :
    files[k].loading =>
      \A status \in Statuses, response \in Responses :
        LET t == onTransferComplete(Transport(Start, k, "loaded", 0), k, status, response)
            r == t.files[k]
        IN /\ ~r.loading
           /\ r.req.phase # "sending"
           /\ Len(t.files) = Len(files)
           /\ status = 200 =>
                /\ r.warning = Undefined
                /\ r.accepted = files[k].accepted
                /\ t.log = << Event("sl-load", k - 1, <<>>, response, "response") >>
           /\ status # 200 =>
                /\ r.warning = Some(term("serverError"))
                /\ t.log = << Event("sl-error", k - 1, <<>>, "", "event") >>

\* --------------------------------------------------------------------- C11
\* C11: in every reachable state, for every record, the cancel handle
\* (fileInfo.xhr) is present if and only if the record is loading: every
\* terminal transition clears the handle together with the loading flag.
HandleIffLoading ==
  \A k \in 1..Len(files) : files[k].xhr <=> files[k].loading

\* --------------------------------------------------------------------- C12
\* C12: over the progress callbacks of one record's transfer (bytes sent never
\* going back, total the body's length when computable) the stored progress
\* never decreases and stays within [0, 100]; a callback whose total is not
\* computable leaves progress as it was.
ProgressMonotoneAndBounded ==
  \A k \in 1..Len(files) :
    /\ IsDefined(files[k].progress) => Get(files[k].progress) \in 0..100
    /\ Sending(k) =>
         /\ IsDefined(files[k].progress)
         /\ \A loaded \in files[k].req.loaded..Total(k) :
              LET on == updateTransferProgress(Transport(Start, k, "sending", loaded),
                                               k, TRUE, loaded, Total(k))
                  off == updateTransferProgress(Transport(Start, k, "sending", loaded),
                                                k, FALSE, loaded, 0)
              IN /\ Get(on.files[k].progress) >= Get(files[k].progress)
                 /\ Get(on.files[k].progress) \in 0..100
                 /\ off.files[k].progress = files[k].progress

\* a record stands at 50 percent and the next progress callback brings it to 100
ProgressHalfThenFull ==
  \E k \in 1..Len(files) :
    /\ Sending(k)
    /\ files[k].progress = Some(50)
    /\ Total(k) = 2
    /\ updateTransferProgress(Transport(Start, k, "sending", 2), k, TRUE, 2, 2).files[k].progress
         = Some(100)

\* --------------------------------------------------------------------- C13
\* C13: a record's accepted value is set at intake and never changes: no
\* transfer callback (complete, error, abort) changes it, and a removal
\* changes it neither on the record that leaves nor on those that stay.
AcceptedNeverChanges ==
  /\ \A k \in 1..Len(files) :
       Sending(k) =>
         /\ \A status \in Statuses, response \in Responses :
              onTransferComplete(Transport(Start, k, "loaded", 0), k, status, response)
                .files[k].accepted = files[k].accepted
         /\ onTransferError(Transport(Start, k, "failed", 0), k).files[k].accepted
              = files[k].accepted
         /\ onTransferAbort(Transport(Start, k, "aborted", 0), k).files[k].accepted
              = files[k].accepted
  /\ \A index \in Indices :
       LET t == handleFileRemove(Start, index)
       IN /\ Get(t.gone).accepted = files[index + 1].accepted
          /\ \A j \in 1..Len(t.files) :
               t.files[j].accepted = (IF j <= index THEN files[j] ELSE files[j + 1]).accepted

\* --------------------------------------------------------------------- C14
\* C14: a record leaves the queue only through handleFileRemove: whatever
\* batch is delivered, every queued record is still there, at its place and
\* as it was; whatever the outcome of a transfer (load, error, abort), the
\* queue holds the same records of the same files at the same places.
OnlyRemovalTakesRecordsOut ==
  /\ \A d \in Deliveries :
       \A t \in { handleFiles(Start, d), onDrop(Start, d), handleFileInputChange(Start, d) } :
         /\ Len(t.files) >= Len(files)
         /\ \A j \in 1..Len(files) : t.files[j] = files[j]
  /\ \A k \in 1..Len(files) :
       Sending(k) =>
         \A t \in { onTransferComplete(Transport(Start, k, "loaded", 0), k, status, response) :
                      status \in Statuses, response \in Responses }
                  \cup { onTransferError(Transport(Start, k, "failed", 0), k),
                         onTransferAbort(Transport(Start, k, "aborted", 0), k) } :
           /\ Len(t.files) = Len(files)
           /\ \A j \in 1..Len(files) : t.files[j].file = files[j].file

\* a record whose upload has completed is still queued, and a later batch
\* adds a record beside it
CompletedStaysBesideLaterBatch ==
  \E k \in 1..Len(files) :
    /\ ~files[k].loading
    /\ files[k].notified = << "sl-load" >>
    /\ \E l \in FileLists :
         LET t == handleFiles(Start, Some(l))
         IN Len(t.files) > Len(files) /\ t.files[k] = files[k]

\* --------------------------------------------------------------------- C15
\* C15 as claimed: every file added to the queue whose size exceeds
\* max-file-size, the files that also fail the type check included, gets a
\* record that is not accepted and carries the 'size exceeded' warning.
OversizeAlwaysSizeExceeded ==
  Len(files) < maxFiles =>
    \A f \in CandidateFiles :
      ~hasValidFileSize(f, maxFileSize) =>
        LET t == addFile(Start, f)
            r == t.files[Len(t.files)]
        IN /\ Len(t.files) = Len(files) + 1
           /\ r.file = f
           /\ ~r.accepted
           /\ r.warning = Some(term("fileSizeExceeded"))

\* C15 as amended: every file added to the queue that passes the type check
\* and whose size exceeds max-file-size gets a record that is not accepted and
\* carries the 'size exceeded' warning; a file that fails the type check gets
\* the 'type not accepted' warning, whatever its size.
OversizeOfAcceptedTypeSizeExceeded ==
  Len(files) < maxFiles =>
    \A f \in CandidateFiles :
      LET t == addFile(Start, f)
          r == t.files[Len(t.files)]
      IN /\ Len(t.files) = Len(files) + 1
         /\ r.file = f
         /\ (hasValidFileType(f, accept) /\ ~hasValidFileSize(f, maxFileSize)) =>
              ~r.accepted /\ r.warning = Some(term("fileSizeExceeded"))
         /\ ~hasValidFileType(f, accept) =>
              ~r.accepted /\ r.warning = Some(term("fileTypeNotAccepted"))

\* a file of an accepted type and over the size limit has been recorded as
\* 'size exceeded'
OversizeRecorded ==
  \E k \in 1..Len(files) :
    /\ hasValidFileType(files[k].file, accept)
    /\ ~hasValidFileSize(files[k].file, maxFileSize)
    /\ ~files[k].accepted
    /\ files[k].warning = Some(term("fileSizeExceeded"))

\* --------------------------------------------------------------------- C16
\* C16: while disabled is set, neither a drop nor a picker selection adds a
\* record, changes the warning, emits sl-change or starts a transfer; while
\* only no-drag is set, a drop does nothing and a picker selection is
\* processed by handleFiles as usual.
DisabledSuppressesIntake ==
  /\ disabled =>
       \A d \in Deliveries :
         \A t \in { onDrop(Start, d), handleFileInputChange(Start, d) } :
           /\ t.files = files
           /\ t.warning = warning
           /\ "sl-change" \notin EventNames(t)
  /\ (noDrag /\ ~disabled) =>
       \A d \in Deliveries :
         /\ onDrop(Start, d) = Start
         /\ LET t == handleFileInputChange(Start, d)
                h == handleFiles(Start, d)
            IN /\ t.files = h.files
               /\ t.warning = h.warning
               /\ "sl-change" \in EventNames(t) <=> "sl-change" \in EventNames(h)

\* --------------------------------------------------------------------- C17
\* what the upload callbacks of files[k] can leave, over all they can be
\* called with while the upload is in flight
CallbackOutcomes(k) ==
  { updateTransferProgress(Transport(Start, k, "sending", loaded), k, computable, loaded,
                           IF computable THEN Total(k) ELSE 0) :
      loaded \in files[k].req.loaded..Total(k), computable \in BOOLEAN }
  \cup { onTransferComplete(Transport(Start, k, "loaded", 0), k, status, response) :
           status \in Statuses, response \in Responses }
  \cup { onTransferError(Transport(Start, k, "failed", 0), k),
         onTransferAbort(Transport(Start, k, "aborted", 0), k) }

\* C17: a transfer callback (progress, complete, error, abort) of a record
\* changes fields of that record only: the queue keeps its length and order,
\* every other record is as it was, and so is the drop-zone warning; this in
\* every reachable state, so wherever earlier removals have moved the record.
\* The abort callback run by the removal of a loading record leaves the other
\* records as they were too.
CallbackTouchesOwnRecordOnly ==
  /\ \A k \in 1..Len(files) :
       Sending(k) =>
         \A t \in CallbackOutcomes(k) :
           /\ Len(t.files) = Len(files)
           /\ \A j \in 1..Len(files) : j # k => t.files[j] = files[j]
           /\ t.files[k].file = files[k].file
           /\ t.warning = warning
           /\ ~t.threw
  /\ \A index \in Indices :
       files[index + 1].loading =>
         handleFileRemove(Start, index).files = RemoveAt(files, index)

\* two uploads in flight: once the first record is removed the second stands
\* at index 0, where its error callback finds it
CallbackAfterIndexShift ==
  /\ Len(files) = 2
  /\ Sending(1)
  /\ Sending(2)
  /\ LET t == handleFileRemove(Start, 0)
     IN /\ Len(t.files) = 1
        /\ t.files[1] = files[2]
        /\ onTransferError([t EXCEPT !.files[1].req = [phase |-> "failed", loaded |-> 0]], 1)
             .files[1].warning = Some(term("transferError"))

\* --------------------------------------------------------------------- C18
\* the file fails the validation of addFile under the component's properties
FailsValidation(file) ==
  ~hasValidFileType(file, accept) \/ ~hasValidFileSize(file, maxFileSize)

\* sl-error or sl-abort has been emitted for the FileInfo's transfer
TransferFailed(r) ==
  \E i \in DOMAIN r.notified : r.notified[i] \in { "sl-error", "sl-abort" }

\* C18: in every reachable state, a record carries a warning if and only if
\* its file was rejected at intake or its transfer has failed or was aborted;
\* an accepted record whose transfer has not started, is in progress or has
\* completed carries none.
WarningIffRejectedOrFailed ==
  \A k \in 1..Len(files) :
    /\ IsDefined(files[k].warning) <=>
         (FailsValidation(files[k].file) \/ TransferFailed(files[k]))
    /\ (files[k].accepted /\ ~TransferFailed(files[k])) => files[k].warning = Undefined

\* beside a record whose upload has completed and that carries no warning
\* stands one of a valid file whose upload the server has refused
FailedBesideCompleted ==
  \E j, k \in 1..Len(files) :
    /\ files[j].accepted
    /\ files[j].notified = << "sl-load" >>
    /\ files[j].warning = Undefined
    /\ ~FailsValidation(files[k].file)
    /\ files[k].notified = << "sl-error" >>
    /\ files[k].warning = Some(term("serverError"))

\* --------------------------------------------------------------------- C19
\* C19: the drop-zone warning left by an earlier batch does not outlast the
\* next batch (a FileList of at least one file; an empty or absent FileList is
\* no batch and handleFiles returns at once): after that batch the warning is
\* there only if the batch itself set it, 'multiple files not allowed' for
\* several files in single mode, 'max files exceeded' for more files than the
\* queue has room for, and nothing otherwise.  No upload callback and no
\* removal sets or clears the drop-zone warning.
WarningLastsOneBatch ==
  /\ \A l \in FileLists :
       l # <<>> =>
         \A t \in Delivered(l) :
           t.warning =
             IF ~multiple /\ Len(l) > 1 THEN Some(term("noMultipleFiles"))
             ELSE IF Len(files) + Len(l) > maxFiles THEN Some(term("maxFiles"))
             ELSE Undefined
  /\ \A k \in 1..Len(files) :
       Sending(k) => \A t \in CallbackOutcomes(k) : t.warning = warning
  /\ \A index \in 0..MaxFilesCap : handleFileRemove(Start, index).warning = warning

\* the warning of an earlier batch is showing, and the next batch, which
\* sets none, leaves the drop zone without it
NextBatchClearsWarning ==
  /\ IsDefined(warning)
  /\ \E l \in FileLists :
       /\ l # <<>>
       /\ handleFiles(Start, Some(l)).warning = Undefined
       /\ Len(handleFiles(Start, Some(l)).files) = Len(files) + Len(l)

\* --------------------------------------------------------------------- C20
TerminalNames == { "sl-load", "sl-error", "sl-abort" }

\* how many terminal notifications a handler has emitted
TerminalCount(t) == Cardinality({ i \in DOMAIN t.log : t.log[i].name \in TerminalNames })

\* C20: for each started transfer, whatever the interleaving of callbacks and
\* removals, the listeners get at most one terminal notification (sl-load,
\* sl-error or sl-abort): the callbacks of a record have emitted at most one,
\* none while it is loading, and the removal of a loading record emits
\* exactly one; once a transfer has ended no progress callback of it can
\* follow (its request is no longer sending).
AtMostOneTerminalNotification ==
  /\ \A k \in 1..Len(files) :
       /\ Len(files[k].notified) <= 1
       /\ files[k].loading => files[k].notified = <<>>
       /\ files[k].notified # <<>> => ~Sending(k)
  /\ \A index \in Indices :
       LET t == handleFileRemove(Start, index)
       IN /\ Len(files[index + 1].notified) + TerminalCount(t) <= 1
          /\ Get(t.gone).req.phase # "sending"
====
